---- MODULE Spec2Model ----
(***************************************************************************)
(* trampolino: the chained console script (cli.py) and the MRtrix3         *)
(* command-line wrappers (workflows/interfaces/mrtrix3/preprocess.py).     *)
(*                                                                         *)
(* Part I  (Spec)    : one invocation of the click group `cli` with        *)
(*                     chain=True: group callback, then the subcommands.   *)
(* Part II (SpecCmd) : the wrappers' inputs, the command line generated     *)
(*                     from them and ResponseSD's listed outputs.          *)
(***************************************************************************)
EXTENDS Integers, Sequences, FiniteSets, TLC

VARIABLES
    argv,      \* the subcommands of the invocation, in command-line order
    opts,      \* the six group options as parsed from the command line
    obj,       \* ctx.obj, the dict shared by the group and its subcommands
    pc,        \* position of the invocation
    idx,       \* index in argv of the next subcommand to invoke
    running,   \* workflows between the call of wf.run() and its return
    ran,       \* stages entered so far, each with the input it took
    iface,     \* Part II: the wrapper under construction
    inputs,    \* Part II: its inputs trait set
    result     \* Part II: what .cmdline / _list_outputs returned

cliVars == <<argv, opts, obj, pc, idx, running, ran>>
cmdVars == <<iface, inputs, result>>
vars == <<argv, opts, obj, pc, idx, running, ran, iface, inputs, result>>

(***************************************************************************)
(* Part I: cli.py                                                          *)
(***************************************************************************)

\* Longest chain of subcommands considered.
MaxCmds == 3

\* Python's None: the value of a click option that was not given.
None == "<None>"

OptionNames == {"in_file", "bvec", "bval", "anat", "odf", "seed"}

\* What the user may give for each option (type=str), or nothing.
UserValue(o) ==
    CASE o = "in_file" -> "dwi.mif"
      [] o = "bvec"    -> "bvecs"
      [] o = "bval"    -> "bvals"
      [] o = "anat"    -> "t1.nii.gz"
      [] o = "odf"     -> "user_odf.mif"
      [] o = "seed"    -> "user_seed.mif"

\* Paths the handlers record in the shared context.
ReconOdf  == "/Users/bsms9gep/tramp/wm.mif"
ReconSeed == "/Users/bsms9gep/tramp/brainmask.mif"
TrackTck  == "/Users/bsms9gep/tramp/tracking.tck"

\* The node stored under 'results'.
Datasink == "datasink:/Users/bsms9gep/tramp"

\* One subcommand as parsed: its name and, for 'filter', its -t/--tck option.
Subcommands ==
    [cmd : {"recon", "track"}, tck : {None}]
        \cup [cmd : {"filter"}, tck : {None, "user.tck"}]

RECURSIVE SeqsUpTo(_, _)
SeqsUpTo(S, n) ==
    IF n = 0 THEN {<<>>}
    ELSE LET shorter == SeqsUpTo(S, n - 1)
         IN  shorter \cup {Append(s, e) : s \in {t \in shorter : Len(t) = n - 1}, e \in S}

\* d[k] = v on a dict.
SetItem(d, k, v) == [x \in (DOMAIN d) \cup {k} |-> IF x = k THEN v ELSE d[x]]

EmptyDict == [k \in {} |-> None]
NoInputs == [k \in {} |-> None]

\* Nothing returned yet.
NoResult == [kind |-> "none", tokens |-> <<>>, line |-> "", outputs |-> NoInputs]

\* sys.exit(cli(obj={})): the shared context starts as an empty dict; the
\* command line has been split into group options and chained subcommands.
InitCli ==
    /\ argv \in SeqsUpTo(Subcommands, MaxCmds)
    /\ opts \in [OptionNames -> {None, "given"}]
    /\ obj = EmptyDict
    /\ pc = "start"
    /\ idx = 1
    /\ running = {}
    /\ ran = <<>>

OptValue(o) == IF opts[o] = None THEN None ELSE UserValue(o)

\* (mutation of cli: the line storing 'anat' is missing)
cli_without_anat ==
    /\ pc = "start"
    /\ obj' = [k \in (DOMAIN obj) \cup (OptionNames \ {"anat"}) \cup {"results"} |->
                 IF k = "results" THEN Datasink
                 ELSE IF k \in OptionNames THEN OptValue(k)
                 ELSE obj[k]]
    /\ pc' = "dispatch"
    /\ UNCHANGED <<argv, opts, idx, running, ran>>
    /\ UNCHANGED cmdVars

\* The group callback: stores the six options and the datasink node.
cli ==
    /\ pc = "start"
    /\ obj' = [k \in (DOMAIN obj) \cup OptionNames \cup {"results"} |->
                 IF k = "results" THEN Datasink
                 ELSE IF k \in OptionNames THEN OptValue(k)
                 ELSE obj[k]]
    /\ pc' = "dispatch"
    /\ UNCHANGED <<argv, opts, idx, running, ran>>
    /\ UNCHANGED cmdVars

\* The subcommand the chain invokes next, if any.
HasNext == idx <= Len(argv)
NextCmd == argv[idx].cmd

\* dw_recon up to and including the call of wf.run().
dw_recon_run ==
    /\ pc = "dispatch" /\ HasNext /\ NextCmd = "recon"
    /\ {"in_file", "bvec", "bval", "results"} \subseteq DOMAIN obj
    /\ ran' = Append(ran, [cmd |-> "recon", input |-> obj["in_file"],
                           seed |-> None, sink |-> obj["results"]])
    /\ running' = running \cup {"recon"}
    /\ pc' = "recon_run"
    /\ UNCHANGED <<argv, opts, obj, idx>>
    /\ UNCHANGED cmdVars

\* (mutation of dw_recon: the ODF path is recorded only when --odf was not given)
dw_recon_done_keeps_user_odf ==
    /\ pc = "recon_run"
    /\ running' = running \ {"recon"}
    /\ LET o1 == IF obj["odf"] = None THEN SetItem(obj, "odf", ReconOdf) ELSE obj
       IN  obj' = IF o1["seed"] = None THEN SetItem(o1, "seed", ReconSeed) ELSE o1
    /\ idx' = idx + 1
    /\ pc' = "dispatch"
    /\ UNCHANGED <<argv, opts, ran>>
    /\ UNCHANGED cmdVars

\* dw_recon after wf.run() returned.
dw_recon_done ==
    /\ pc = "recon_run"
    /\ running' = running \ {"recon"}
    /\ LET o1 == SetItem(obj, "odf", ReconOdf)
       IN  obj' = IF o1["seed"] = None THEN SetItem(o1, "seed", ReconSeed) ELSE o1
    /\ idx' = idx + 1
    /\ pc' = "dispatch"
    /\ UNCHANGED <<argv, opts, ran>>
    /\ UNCHANGED cmdVars

\* odf_track up to and including the call of wf.run().
odf_track_run ==
    /\ pc = "dispatch" /\ HasNext /\ NextCmd = "track"
    /\ {"odf", "seed", "results"} \subseteq DOMAIN obj
    /\ ran' = Append(ran, [cmd |-> "track", input |-> obj["odf"],
                           seed |-> obj["seed"], sink |-> obj["results"]])
    /\ running' = running \cup {"track"}
    /\ pc' = "track_run"
    /\ UNCHANGED <<argv, opts, obj, idx>>
    /\ UNCHANGED cmdVars

\* Tractography's in_file/seed_image are File traits (in_file must exist): the
\* assignment of a value the trait rejects raises and ends the invocation.
odf_track_raises ==
    /\ pc = "dispatch" /\ HasNext /\ NextCmd = "track"
    /\ pc' = "failed"
    /\ UNCHANGED <<argv, opts, obj, idx, running, ran>>
    /\ UNCHANGED cmdVars

\* odf_track after wf.run() returned.
odf_track_done ==
    /\ pc = "track_run"
    /\ running' = running \ {"track"}
    /\ obj' = SetItem(obj, "tck", TrackTck)
    /\ idx' = idx + 1
    /\ pc' = "dispatch"
    /\ UNCHANGED <<argv, opts, ran>>
    /\ UNCHANGED cmdVars

\* tck_filter(ctx, tck): the body is `pass`; all it takes is its own option.
tck_filter ==
    /\ pc = "dispatch" /\ HasNext /\ NextCmd = "filter"
    /\ ran' = Append(ran, [cmd |-> "filter", input |-> argv[idx].tck,
                           seed |-> None, sink |-> None])
    /\ idx' = idx + 1
    /\ UNCHANGED <<argv, opts, obj, pc, running>>
    /\ UNCHANGED cmdVars

\* A workflow's run() raises (an external tool failed): the exception leaves
\* the handler and ends the invocation.
wf_run_raises ==
    /\ pc \in {"recon_run", "track_run"}
    /\ running' = {}
    /\ pc' = "failed"
    /\ UNCHANGED <<argv, opts, obj, idx, ran>>
    /\ UNCHANGED cmdVars

\* The chain is exhausted: cli() returns and sys.exit ends the process.
cli_exit ==
    /\ pc = "dispatch" /\ ~HasNext
    /\ pc' = "done"
    /\ UNCHANGED <<argv, opts, obj, idx, running, ran>>
    /\ UNCHANGED cmdVars

Next ==
    \/ cli
    \/ dw_recon_run
    \/ dw_recon_done
    \/ odf_track_run
    \/ odf_track_raises
    \/ odf_track_done
    \/ tck_filter
    \/ wf_run_raises
    \/ cli_exit

Init ==
    /\ InitCli
    /\ iface = "none" /\ inputs = NoInputs /\ result = NoResult

Spec == Init /\ [][Next]_vars

(***************************************************************************)
(* Part I: properties                                                      *)
(***************************************************************************)

\* Stage i of the invocation follows an earlier stage named c.
After(i, c) == \E j \in 1..(i - 1) : ran[j].cmd = c

\* C1: when recon ran and track runs after it in the same invocation, the ODF
\* input of the tracking node is the path recon recorded in the shared context,
\* whether or not the user gave --odf.
C1_TrackTakesReconOdf ==
    \A i \in 1..Len(ran) :
        (ran[i].cmd = "track" /\ After(i, "recon")) => ran[i].input = ReconOdf

\* C1 witness: --odf was given, recon ran, and track then took recon's path.
C1_Witness ==
    /\ opts["odf"] # None
    /\ \E i \in 1..Len(ran) :
          ran[i].cmd = "track" /\ After(i, "recon") /\ ran[i].input = ReconOdf

\* C2 (as claimed): when track ran and filter runs after it, the path track
\* recorded under 'tck' in the shared context is the input filter takes.
C2_FilterTakesTrackTck ==
    \A i \in 1..Len(ran) :
        (ran[i].cmd = "filter" /\ After(i, "track")) =>
            ("tck" \in DOMAIN obj /\ ran[i].input = obj["tck"])

\* C3: stages are entered in command-line order, one at a time, each only
\* after the group callback stored the six options and the datasink; never two
\* workflows at once; no subcommand, no workflow.
C3_OneAfterAnotherInOrder ==
    /\ Cardinality(running) <= 1
    /\ Len(ran) <= Len(argv)
    /\ \A i \in 1..Len(ran) : ran[i].cmd = argv[i].cmd
    /\ (ran # <<>> \/ running # {}) =>
          /\ OptionNames \cup {"results"} \subseteq DOMAIN obj
          /\ obj["results"] = Datasink
          /\ \A o \in {"in_file", "bvec", "bval", "anat"} : obj[o] = OptValue(o)
    /\ running # {} =>
          /\ ran # <<>>
          /\ running = {ran[Len(ran)].cmd}
          /\ idx = Len(ran)
    /\ pc = "dispatch" => (running = {} /\ idx = Len(ran) + 1)
    /\ pc = "start" => (ran = <<>> /\ running = {})
    /\ argv = <<>> => (ran = <<>> /\ running = {})

\* C3 witness: a chain recon, track, ... ran to its end.
C3_Witness ==
    /\ pc = "done"
    /\ Len(argv) >= 2 /\ Len(ran) = Len(argv)
    /\ ran[1].cmd = "recon" /\ ran[2].cmd = "track"

(***************************************************************************)
(* Part II: workflows/interfaces/mrtrix3/preprocess.py                     *)
(*                                                                         *)
(* A trait value is <<>> (Undefined) or <<v>>.  A file name is a record    *)
(* [dir, stem, ext]: dir the sequence of its directories ("/" first when   *)
(* absolute), ext its extension with the dot ("" when it has none).        *)
(***************************************************************************)

Undefined == <<>>
isdefined(v) == v # <<>>

File(dir, stem, ext) == [dir |-> dir, stem |-> stem, ext |-> ext]

RECURSIVE DirStr(_)
DirStr(dir) ==
    IF dir = <<>> THEN ""
    ELSE (IF Head(dir) = "/" THEN "/" ELSE Head(dir) \o "/") \o DirStr(Tail(dir))

\* The file name as the string the user typed.
PathStr(f) == DirStr(f.dir) \o f.stem \o f.ext

\* The directory the process runs in.
Cwd == <<"/", "work">>

IsAbs(f) == f.dir # <<>> /\ Head(f.dir) = "/"

\* op.abspath on a name without '.' or '..' components.
abspath(f) == IF IsAbs(f) THEN f ELSE [f EXCEPT !.dir = Cwd \o f.dir]

\* sep.join(str(elt) for elt in value)
RECURSIVE Join(_, _)
Join(xs, sep) ==
    IF xs = <<>> THEN ""
    ELSE IF Len(xs) = 1 THEN ToString(xs[1])
    ELSE ToString(xs[1]) \o sep \o Join(Tail(xs), sep)

\* ' '.join(tokens)
RECURSIVE JoinStr(_)
JoinStr(ts) ==
    IF ts = <<>> THEN ""
    ELSE IF Len(ts) = 1 THEN ts[1]
    ELSE ts[1] \o " " \o JoinStr(Tail(ts))

\* A trait without metadata.  flag is the literal text of argstr before its
\* first format, kind the formats that follow (file/str '%s', int '%d',
\* int3 '%d,%d,%d', str2 '%s %s', list '%s' of a list trait, bool none).
Trait ==
    [name |-> "", flag |-> "", kind |-> "file", position |-> <<>>,
     mandatory |-> FALSE, default |-> <<>>, name_source |-> <<>>,
     name_template |-> <<>>, keep_extension |-> FALSE, xor |-> {}, sep |-> " "]

\* The inputs every MRtrix3 wrapper inherits (of which grad_fsl is used here).
MRTrix3BaseInputSpec ==
    { [Trait EXCEPT !.name = "grad_fsl", !.flag = "-fslgrad", !.kind = "str2"] }

\* (mutation of DWIDenoiseInputSpec: mask declared without position=1)
DWIDenoiseInputSpec_mask_unpositioned ==
    MRTrix3BaseInputSpec \cup
    { [Trait EXCEPT !.name = "in_file", !.position = <<-2>>, !.mandatory = TRUE],
      [Trait EXCEPT !.name = "mask", !.flag = "-mask"],
      [Trait EXCEPT !.name = "extent", !.flag = "-extent", !.kind = "int3"],
      [Trait EXCEPT !.name = "noise", !.flag = "-noise",
                    !.name_template = <<"_noise">>, !.name_source = <<"in_file">>,
                    !.keep_extension = TRUE],
      [Trait EXCEPT !.name = "out_file", !.position = <<-1>>,
                    !.name_template = <<"_denoised">>, !.name_source = <<"in_file">>,
                    !.keep_extension = TRUE] }

DWIDenoiseInputSpec ==
    MRTrix3BaseInputSpec \cup
    { [Trait EXCEPT !.name = "in_file", !.position = <<-2>>, !.mandatory = TRUE],
      [Trait EXCEPT !.name = "mask", !.flag = "-mask", !.position = <<1>>],
      [Trait EXCEPT !.name = "extent", !.flag = "-extent", !.kind = "int3"],
      [Trait EXCEPT !.name = "noise", !.flag = "-noise",
                    !.name_template = <<"_noise">>, !.name_source = <<"in_file">>,
                    !.keep_extension = TRUE],
      [Trait EXCEPT !.name = "out_file", !.position = <<-1>>,
                    !.name_template = <<"_denoised">>, !.name_source = <<"in_file">>,
                    !.keep_extension = TRUE] }

\* (mutation of MRDeGibbsInputSpec: nshifts declared without usedefault=True)
MRDeGibbsInputSpec_nshifts_not_defaulted ==
    MRTrix3BaseInputSpec \cup
    { [Trait EXCEPT !.name = "in_file", !.position = <<-2>>, !.mandatory = TRUE],
      [Trait EXCEPT !.name = "axes", !.flag = "-axes", !.kind = "list",
                    !.default = << <<0, 1>> >>, !.sep = ","],
      [Trait EXCEPT !.name = "nshifts", !.flag = "-nshifts", !.kind = "int"],
      [Trait EXCEPT !.name = "minW", !.flag = "-minW", !.kind = "int",
                    !.default = <<1>>],
      [Trait EXCEPT !.name = "maxW", !.flag = "-maxW", !.kind = "int",
                    !.default = <<3>>],
      [Trait EXCEPT !.name = "out_file", !.position = <<-1>>,
                    !.name_template = <<"_unr">>, !.name_source = <<"in_file">>,
                    !.keep_extension = TRUE] }

MRDeGibbsInputSpec ==
    MRTrix3BaseInputSpec \cup
    { [Trait EXCEPT !.name = "in_file", !.position = <<-2>>, !.mandatory = TRUE],
      [Trait EXCEPT !.name = "axes", !.flag = "-axes", !.kind = "list",
                    !.default = << <<0, 1>> >>, !.sep = ","],
      [Trait EXCEPT !.name = "nshifts", !.flag = "-nshifts", !.kind = "int",
                    !.default = <<20>>],
      [Trait EXCEPT !.name = "minW", !.flag = "-minW", !.kind = "int",
                    !.default = <<1>>],
      [Trait EXCEPT !.name = "maxW", !.flag = "-maxW", !.kind = "int",
                    !.default = <<3>>],
      [Trait EXCEPT !.name = "out_file", !.position = <<-1>>,
                    !.name_template = <<"_unr">>, !.name_source = <<"in_file">>,
                    !.keep_extension = TRUE] }

\* (mutation of DWIBiasCorrectInputSpec: use_fsl declared without xor)
DWIBiasCorrectInputSpec_fsl_without_xor ==
    MRTrix3BaseInputSpec \cup
    { [Trait EXCEPT !.name = "in_file", !.position = <<-2>>, !.mandatory = TRUE],
      [Trait EXCEPT !.name = "in_mask", !.flag = "-mask"],
      [Trait EXCEPT !.name = "use_ants", !.flag = "-ants", !.kind = "bool",
                    !.mandatory = TRUE, !.xor = {"use_fsl"}],
      [Trait EXCEPT !.name = "use_fsl", !.flag = "-fsl", !.kind = "bool",
                    !.mandatory = TRUE],
      [Trait EXCEPT !.name = "bias", !.flag = "-bias"],
      [Trait EXCEPT !.name = "out_file", !.position = <<-1>>,
                    !.name_template = <<"_biascorr">>, !.name_source = <<"in_file">>,
                    !.keep_extension = TRUE] }

DWIBiasCorrectInputSpec ==
    MRTrix3BaseInputSpec \cup
    { [Trait EXCEPT !.name = "in_file", !.position = <<-2>>, !.mandatory = TRUE],
      [Trait EXCEPT !.name = "in_mask", !.flag = "-mask"],
      [Trait EXCEPT !.name = "use_ants", !.flag = "-ants", !.kind = "bool",
                    !.mandatory = TRUE, !.xor = {"use_fsl"}],
      [Trait EXCEPT !.name = "use_fsl", !.flag = "-fsl", !.kind = "bool",
                    !.mandatory = TRUE, !.xor = {"use_ants"}],
      [Trait EXCEPT !.name = "bias", !.flag = "-bias"],
      [Trait EXCEPT !.name = "out_file", !.position = <<-1>>,
                    !.name_template = <<"_biascorr">>, !.name_source = <<"in_file">>,
                    !.keep_extension = TRUE] }

\* (mutation of ResponseSDInputSpec: the positions of wm_file and gm_file swapped)
ResponseSDInputSpec_wm_gm_swapped ==
    MRTrix3BaseInputSpec \cup
    { [Trait EXCEPT !.name = "algorithm", !.kind = "str", !.position = <<1>>,
                    !.mandatory = TRUE],
      [Trait EXCEPT !.name = "in_file", !.position = <<-5>>, !.mandatory = TRUE],
      [Trait EXCEPT !.name = "mtt_file", !.position = <<-4>>],
      [Trait EXCEPT !.name = "wm_file", !.position = <<-2>>,
                    !.default = <<File(<<>>, "wm", ".txt")>>],
      [Trait EXCEPT !.name = "gm_file", !.position = <<-3>>],
      [Trait EXCEPT !.name = "csf_file", !.position = <<-1>>],
      [Trait EXCEPT !.name = "in_mask", !.flag = "-mask"],
      [Trait EXCEPT !.name = "max_sh", !.flag = "-lmax", !.kind = "list",
                    !.sep = ","] }

ResponseSDInputSpec ==
    MRTrix3BaseInputSpec \cup
    { [Trait EXCEPT !.name = "algorithm", !.kind = "str", !.position = <<1>>,
                    !.mandatory = TRUE],
      [Trait EXCEPT !.name = "in_file", !.position = <<-5>>, !.mandatory = TRUE],
      [Trait EXCEPT !.name = "mtt_file", !.position = <<-4>>],
      [Trait EXCEPT !.name = "wm_file", !.position = <<-3>>,
                    !.default = <<File(<<>>, "wm", ".txt")>>],
      [Trait EXCEPT !.name = "gm_file", !.position = <<-2>>],
      [Trait EXCEPT !.name = "csf_file", !.position = <<-1>>],
      [Trait EXCEPT !.name = "in_mask", !.flag = "-mask"],
      [Trait EXCEPT !.name = "max_sh", !.flag = "-lmax", !.kind = "list",
                    !.sep = ","] }

Interfaces == {"DWIDenoise", "MRDeGibbs", "DWIBiasCorrect", "ResponseSD"}

\* input_spec of each wrapper class.
input_spec(i) ==
    CASE i = "DWIDenoise"     -> DWIDenoiseInputSpec
      [] i = "MRDeGibbs"      -> MRDeGibbsInputSpec
      [] i = "DWIBiasCorrect" -> DWIBiasCorrectInputSpec
      [] i = "ResponseSD"     -> ResponseSDInputSpec

\* _cmd of each wrapper class.
cmd(i) ==
    CASE i = "DWIDenoise"     -> "dwidenoise"
      [] i = "MRDeGibbs"      -> "mrdegibbs"
      [] i = "DWIBiasCorrect" -> "dwibiascorrect"
      [] i = "ResponseSD"     -> "dwi2response"

TraitNames(i) == {t.name : t \in input_spec(i)}
TraitOf(i, n) == CHOOSE t \in input_spec(i) : t.name = n

\* The trait names in the order sorted() gives them (code-point order).
SortedNames ==
    <<"algorithm", "axes", "bias", "csf_file", "extent", "gm_file", "grad_fsl",
      "in_file", "in_mask", "mask", "maxW", "max_sh", "minW", "mtt_file",
      "noise", "nshifts", "out_file", "use_ants", "use_fsl", "wm_file">>

\* A fresh inputs object: every trait Undefined but those with a default in use.
DefaultInputs(i) == [n \in TraitNames(i) |-> TraitOf(i, n).default]

\* _filename_from_source: the value of a trait, generated from its name_source
\* when the trait is Undefined and the source is set.
FilenameFromSource(i, inp, n) ==
    LET t == TraitOf(i, n)
        retval == inp[n]
    IN  IF isdefined(retval) \/ t.name_source = <<>> THEN retval
        ELSE IF \E x \in t.xor : isdefined(inp[x]) THEN retval
        ELSE IF ~isdefined(inp[t.name_source[1]]) THEN retval
        ELSE LET source == inp[t.name_source[1]][1]
                 base == source.stem
                 source_ext == source.ext
             IN  << File(<<>>, base \o t.name_template[1],
                         IF t.keep_extension THEN source_ext ELSE "") >>

\* _format_arg: the tokens of one argument; <<>> when it yields None.
FormatArg(t, v) ==
    CASE t.kind = "bool" -> IF v THEN <<t.flag>> ELSE <<>>
      [] t.kind = "list" -> <<t.flag, Join(v, t.sep)>>
      [] t.kind = "int"  -> <<t.flag, ToString(v)>>
      [] t.kind = "int3" -> <<t.flag, ToString(v[1]) \o "," \o ToString(v[2])
                                        \o "," \o ToString(v[3])>>
      [] t.kind = "str2" -> <<t.flag, v[1], v[2]>>
      [] t.kind = "str"  -> <<v>>
      [] t.kind = "file" -> IF t.flag = "" THEN <<PathStr(v)>>
                            ELSE <<t.flag, PathStr(v)>>

\* The traits of wrapper i in sorted name order.
SortedTraits(i) ==
    SelectSeq(SortedNames, LAMBDA n : n \in TraitNames(i))

\* _parse_inputs: arguments with position >= 0 in ascending position, then the
\* unpositioned ones in name order, then those with position < 0 ascending.
ParseInputs(i, inp) ==
    LET names == SortedTraits(i)
        Value(n) == IF TraitOf(i, n).name_source # <<>>
                    THEN FilenameFromSource(i, inp, n) ELSE inp[n]
        Arg(n) == IF isdefined(Value(n)) THEN FormatArg(TraitOf(i, n), Value(n)[1])
                  ELSE <<>>
        Has(k) == Arg(names[k]) # <<>>
        Pos(k) == TraitOf(i, names[k]).position
        Slots(S) == {Pos(k)[1] : k \in {j \in DOMAIN names : Has(j) /\ Pos(j) # <<>>
                                                      /\ Pos(j)[1] \in S}}
        \* a dict keyed by position: the last name written to a slot wins
        Slot(p) == LET ks == {k \in DOMAIN names : Has(k) /\ Pos(k) = <<p>>}
                   IN  Arg(names[CHOOSE k \in ks : \A j \in ks : j <= k])
        Ascending[S \in SUBSET (Slots(Int))] ==
            IF S = {} THEN <<>>
            ELSE LET m == CHOOSE x \in S : \A y \in S : x <= y
                 IN  Slot(m) \o Ascending[S \ {m}]
        Free[k \in 0..Len(names)] ==
            IF k = 0 THEN <<>>
            ELSE Free[k - 1] \o (IF Pos(k) = <<>> THEN Arg(names[k]) ELSE <<>>)
    IN  Ascending[Slots(Nat)] \o Free[Len(names)] \o Ascending[Slots(Int \ Nat)]

\* _check_mandatory_inputs (with _check_xor): TRUE when nothing is raised.
CheckMandatoryInputs(i, inp) ==
    \A t \in {u \in input_spec(i) : u.mandatory} :
        /\ ~(t.xor # {} /\ ~isdefined(inp[t.name])
                /\ ~\E x \in t.xor : isdefined(inp[x]))
        /\ ~(~isdefined(inp[t.name]) /\ t.xor = {})

\* The cmdline property.
Cmdline(i, inp) ==
    IF ~CheckMandatoryInputs(i, inp)
    THEN [NoResult EXCEPT !.kind = "ValueError"]
    ELSE LET ts == <<cmd(i)>> \o ParseInputs(i, inp)
         IN  [NoResult EXCEPT !.kind = "cmdline", !.tokens = ts, !.line = JoinStr(ts)]

\* (mutation of _list_outputs: gm_file listed as given, without op.abspath)
ListOutputs_gm_as_given(inp) ==
    [wm_file  |-> <<abspath(inp["wm_file"][1])>>,
     gm_file  |-> IF inp["gm_file"] # Undefined
                  THEN <<inp["gm_file"][1]>> ELSE Undefined,
     csf_file |-> IF inp["csf_file"] # Undefined
                  THEN <<abspath(inp["csf_file"][1])>> ELSE Undefined]

\* ResponseSD._list_outputs
ListOutputs(inp) ==
    [wm_file  |-> <<abspath(inp["wm_file"][1])>>,
     gm_file  |-> IF inp["gm_file"] # Undefined
                  THEN <<abspath(inp["gm_file"][1])>> ELSE Undefined,
     csf_file |-> IF inp["csf_file"] # Undefined
                  THEN <<abspath(inp["csf_file"][1])>> ELSE Undefined]

\* Values a user assigns to the traits.
Values(n) ==
    CASE n = "in_file"  -> {File(<<>>, "dwi", ".mif"),
                            File(<<"/", "data">>, "dwi", ".nii.gz"),
                            File(<<"sub">>, "b0", "")}
      [] n \in {"mask", "in_mask"} -> {File(<<>>, "mask", ".mif")}
      [] n = "noise"    -> {File(<<>>, "noise", ".mif")}
      [] n = "out_file" -> {File(<<"out">>, "res", ".mif")}
      [] n = "bias"     -> {File(<<>>, "bias", ".mif")}
      [] n = "extent"   -> {<<5, 5, 5>>, <<3, 5, 7>>}
      [] n = "axes"     -> {<<0, 1>>, <<0, 2>>, <<1, 2>>}
      [] n = "nshifts"  -> {20, 10}
      [] n = "minW"     -> {1, 2}
      [] n = "maxW"     -> {3, 5}
      [] n \in {"use_ants", "use_fsl"} -> BOOLEAN
      [] n = "algorithm" -> {"tournier", "msmt_5tt"}
      [] n = "mtt_file" -> {File(<<>>, "5tt", ".mif")}
      [] n = "wm_file"  -> {File(<<>>, "wm", ".txt"), File(<<"/", "out">>, "wm_resp", ".txt")}
      [] n = "gm_file"  -> {File(<<>>, "gm", ".txt")}
      [] n = "csf_file" -> {File(<<"resp">>, "csf", ".txt")}
      [] n = "max_sh"   -> {<<8>>, <<6, 8, 10>>}
      [] n = "grad_fsl" -> {<<"bvecs", "bvals">>}

\* A user creates one wrapper object.
InitCmd ==
    /\ iface \in Interfaces
    /\ inputs = DefaultInputs(iface)
    /\ result = NoResult

\* wrapper.inputs.<n> = v, with the mutual-exclusion check made on assignment:
\* a value for a trait whose xor partner is set is refused and n left Undefined.
SetInput ==
    /\ iface \in Interfaces
    /\ \E n \in TraitNames(iface) : \E v \in Values(n) :
          LET clash == \E x \in TraitOf(iface, n).xor : isdefined(inputs[x])
          IN  /\ inputs' = [inputs EXCEPT ![n] = IF clash THEN Undefined ELSE <<v>>]
              /\ result' = [NoResult EXCEPT !.kind = IF clash THEN "IOError" ELSE "none",
                                            !.line = IF clash THEN n ELSE ""]
    /\ UNCHANGED iface
    /\ UNCHANGED cliVars

\* wrapper.cmdline
cmdline ==
    /\ iface \in Interfaces
    /\ result' = Cmdline(iface, inputs)
    /\ UNCHANGED <<iface, inputs>>
    /\ UNCHANGED cliVars

\* wrapper._list_outputs() of a ResponseSD
list_outputs ==
    /\ iface = "ResponseSD"
    /\ result' = [NoResult EXCEPT !.kind = "outputs", !.outputs = ListOutputs(inputs)]
    /\ UNCHANGED <<iface, inputs>>
    /\ UNCHANGED cliVars

NextCmdline ==
    \/ SetInput
    \/ cmdline
    \/ list_outputs

InitCmdline ==
    /\ InitCmd
    /\ argv = <<>> /\ opts = [o \in OptionNames |-> None] /\ obj = EmptyDict
    /\ pc = "off" /\ idx = 1 /\ running = {} /\ ran = <<>>

SpecCmd == InitCmdline /\ [][NextCmdline]_vars

(***************************************************************************)
(* Part II: properties                                                     *)
(***************************************************************************)

\* The inputs of a fresh wrapper i after the assignments in `set`.
Fresh(i, set) ==
    [n \in TraitNames(i) |-> IF n \in DOMAIN set THEN <<set[n]>> ELSE DefaultInputs(i)[n]]

\* A command line was generated for wrapper i from the current inputs.
Generated(i) == iface = i /\ result.kind = "cmdline"

\* Number of occurrences of token x in ts.
Count(ts, x) == Cardinality({k \in DOMAIN ts : ts[k] = x})

\* The absolute name of f, stated without abspath.
IsAbsoluteOf(r, f) ==
    /\ r.stem = f.stem /\ r.ext = f.ext
    /\ r.dir # <<>> /\ r.dir[1] = "/"
    /\ r.dir = IF f.dir # <<>> /\ f.dir[1] = "/" THEN f.dir ELSE <<"/", "work">> \o f.dir

\* C4: whatever of mask, extent and noise is set, DWIDenoise's command line
\* starts with 'dwidenoise', ends with the input image and then the output
\* image, has '-mask <file>' before every unpositioned option, and names an
\* unset output <input base>_denoised<input extension>; the documented example
\* gives the documented line.
C4_DWIDenoiseCmdline ==
    Generated("DWIDenoise") =>
        LET ts == result.tokens
            n == Len(ts)
            in == inputs["in_file"][1]
        IN  /\ n >= 3
            /\ ts[1] = "dwidenoise"
            /\ ts[n - 1] = PathStr(in)
            /\ ts[n] = IF isdefined(inputs["out_file"])
                       THEN PathStr(inputs["out_file"][1])
                       ELSE in.stem \o "_denoised" \o in.ext
            /\ (~isdefined(inputs["out_file"]) /\ in = File(<<"/", "data">>, "dwi", ".nii.gz"))
                   => ts[n] = "dwi_denoised.nii.gz"
            /\ Count(ts, "-mask") = IF isdefined(inputs["mask"]) THEN 1 ELSE 0
            /\ isdefined(inputs["mask"]) =>
                   /\ ts[2] = "-mask" /\ ts[3] = PathStr(inputs["mask"][1])
                   /\ \A k \in DOMAIN ts :
                          ts[k] \in {"-extent", "-noise", "-fslgrad"} => k > 3
            /\ isdefined(inputs["extent"]) => Count(ts, "-extent") = 1
            /\ isdefined(inputs["noise"]) =>
                   \E k \in DOMAIN ts :
                       ts[k] = "-noise" /\ ts[k + 1] = PathStr(inputs["noise"][1])
            /\ inputs = Fresh("DWIDenoise",
                              [in_file |-> File(<<>>, "dwi", ".mif"),
                               mask |-> File(<<>>, "mask", ".mif"),
                               noise |-> File(<<>>, "noise", ".mif")])
                   => result.line =
                        "dwidenoise -mask mask.mif -noise noise.mif dwi.mif dwi_denoised.mif"

\* C4 witness: the documented example was generated.
C4_Witness ==
    /\ Generated("DWIDenoise")
    /\ isdefined(inputs["mask"]) /\ isdefined(inputs["noise"])
    /\ ~isdefined(inputs["out_file"])
    /\ result.line = "dwidenoise -mask mask.mif -noise noise.mif dwi.mif dwi_denoised.mif"

\* C5: with only in_file set, MRDeGibbs' command line carries the four options
\* at their defaults, in the order -axes 0,1 -maxW 3 -minW 1 -nshifts 20, then
\* the input image, then <input base>_unr<input extension>.
C5_MRDeGibbsDefaults ==
    \A f \in Values("in_file") :
        (Generated("MRDeGibbs") /\ inputs = Fresh("MRDeGibbs", [in_file |-> f])) =>
            /\ result.line = "mrdegibbs -axes 0,1 -maxW 3 -minW 1 -nshifts 20 "
                                \o PathStr(f) \o " " \o f.stem \o "_unr" \o f.ext
            /\ f = File(<<>>, "dwi", ".mif") =>
                   result.line =
                     "mrdegibbs -axes 0,1 -maxW 3 -minW 1 -nshifts 20 dwi.mif dwi_unr.mif"

\* C5 witness: the documented example was generated.
C5_Witness ==
    /\ Generated("MRDeGibbs")
    /\ inputs = Fresh("MRDeGibbs", [in_file |-> File(<<>>, "dwi", ".mif")])
    /\ result.line = "mrdegibbs -axes 0,1 -maxW 3 -minW 1 -nshifts 20 dwi.mif dwi_unr.mif"

\* The file arguments ResponseSD is expected to end with.
RECURSIVE SetFiles(_)
SetFiles(names) ==
    IF names = <<>> THEN <<>>
    ELSE (IF isdefined(inputs[Head(names)]) THEN <<PathStr(inputs[Head(names)][1])>>
          ELSE <<>>) \o SetFiles(Tail(names))

\* C6: whatever is set, ResponseSD's command line is 'dwi2response', the
\* algorithm, the option flags that are set (-fslgrad a b, -lmax with its
\* values joined by commas, -mask file) and nothing else, then the set files
\* among in_file, mtt_file, wm_file, gm_file, csf_file in that order, wm_file
\* being 'wm.txt' unless set otherwise.
C6_ResponseSDCmdline ==
    Generated("ResponseSD") =>
        LET ts == result.tokens
            files == SetFiles(<<"in_file", "mtt_file", "wm_file", "gm_file", "csf_file">>)
            nopt == (IF isdefined(inputs["grad_fsl"]) THEN 3 ELSE 0)
                      + (IF isdefined(inputs["max_sh"]) THEN 2 ELSE 0)
                      + (IF isdefined(inputs["in_mask"]) THEN 2 ELSE 0)
            opt == SubSeq(ts, 3, 2 + nopt)
        IN  /\ Len(ts) = 2 + nopt + Len(files)
            /\ ts[1] = "dwi2response"
            /\ ts[2] = inputs["algorithm"][1]
            /\ SubSeq(ts, 3 + nopt, Len(ts)) = files
            /\ isdefined(inputs["wm_file"])
            /\ isdefined(inputs["grad_fsl"]) =>
                   \E k \in 1..(nopt - 2) :
                       opt[k] = "-fslgrad" /\ opt[k + 1] = inputs["grad_fsl"][1][1]
                                           /\ opt[k + 2] = inputs["grad_fsl"][1][2]
            /\ isdefined(inputs["max_sh"]) =>
                   \E k \in 1..(nopt - 1) :
                       opt[k] = "-lmax"
                       /\ opt[k + 1] = IF inputs["max_sh"][1] = <<6, 8, 10>>
                                       THEN "6,8,10" ELSE "8"
            /\ isdefined(inputs["in_mask"]) =>
                   \E k \in 1..(nopt - 1) :
                       opt[k] = "-mask" /\ opt[k + 1] = PathStr(inputs["in_mask"][1])
            /\ inputs = Fresh("ResponseSD",
                              [algorithm |-> "tournier",
                               in_file |-> File(<<>>, "dwi", ".mif"),
                               grad_fsl |-> <<"bvecs", "bvals">>,
                               max_sh |-> <<6, 8, 10>>])
                   => result.line =
                        "dwi2response tournier -fslgrad bvecs bvals -lmax 6,8,10 dwi.mif wm.txt"

\* C6 witness: the documented multi-shell example was generated.
C6_Witness ==
    /\ Generated("ResponseSD")
    /\ isdefined(inputs["max_sh"]) /\ ~isdefined(inputs["gm_file"])
    /\ result.line = "dwi2response tournier -fslgrad bvecs bvals -lmax 6,8,10 dwi.mif wm.txt"

\* C7: DWIBiasCorrect never holds both use_ants and use_fsl; an assignment
\* refused as mutually exclusive leaves that input Undefined beside its set
\* partner; a command line is generated only with exactly one of them set, and
\* carries '-ants' ('-fsl') exactly when use_ants (use_fsl) is True.
C7_BiasCorrectExactlyOne ==
    iface = "DWIBiasCorrect" =>
        /\ ~(isdefined(inputs["use_ants"]) /\ isdefined(inputs["use_fsl"]))
        /\ result.kind = "IOError" =>
               \E n \in {"use_ants", "use_fsl"} :
                   /\ result.line = n /\ ~isdefined(inputs[n])
                   /\ \E x \in {"use_ants", "use_fsl"} \ {n} : isdefined(inputs[x])
        /\ (~isdefined(inputs["use_ants"]) /\ ~isdefined(inputs["use_fsl"]))
               => result.kind # "cmdline"
        /\ result.kind = "cmdline" =>
               /\ Count(result.tokens, "-ants")
                      = IF inputs["use_ants"] = <<TRUE>> THEN 1 ELSE 0
               /\ Count(result.tokens, "-fsl")
                      = IF inputs["use_fsl"] = <<TRUE>> THEN 1 ELSE 0
               /\ inputs = Fresh("DWIBiasCorrect",
                                 [in_file |-> File(<<>>, "dwi", ".mif"), use_ants |-> TRUE])
                      => result.line = "dwibiascorrect -ants dwi.mif dwi_biascorr.mif"

\* C7 witness: the documented example was generated.
C7_Witness ==
    /\ Generated("DWIBiasCorrect")
    /\ inputs["use_ants"] = <<TRUE>> /\ ~isdefined(inputs["use_fsl"])
    /\ result.line = "dwibiascorrect -ants dwi.mif dwi_biascorr.mif"

\* C8: the outputs ResponseSD lists are located from its inputs: wm_file is
\* always the absolute name of the wm_file input; gm_file and csf_file are
\* listed exactly when the input of that name is set, as its absolute name.
C8_ResponseSDOutputs ==
    (iface = "ResponseSD" /\ result.kind = "outputs") =>
        /\ DOMAIN result.outputs = {"wm_file", "gm_file", "csf_file"}
        /\ isdefined(result.outputs["wm_file"])
        /\ \A n \in {"wm_file", "gm_file", "csf_file"} :
               /\ isdefined(result.outputs[n]) <=> isdefined(inputs[n])
               /\ isdefined(inputs[n]) =>
                      IsAbsoluteOf(result.outputs[n][1], inputs[n][1])
        /\ inputs["wm_file"] = DefaultInputs("ResponseSD")["wm_file"] =>
               PathStr(result.outputs["wm_file"][1]) = "/work/wm.txt"

\* C8 witness: outputs listed with the default wm_file, gm_file unset and a
\* relative csf_file set.
C8_Witness ==
    /\ iface = "ResponseSD" /\ result.kind = "outputs"
    /\ PathStr(result.outputs["wm_file"][1]) = "/work/wm.txt"
    /\ ~isdefined(inputs["gm_file"]) /\ ~isdefined(result.outputs["gm_file"])
    /\ isdefined(inputs["csf_file"])
    /\ PathStr(result.outputs["csf_file"][1]) = "/work/resp/csf.txt"

====
